---------------------------- MODULE Spec2Model ----------------------------
(***************************************************************************)
(* Drag3D viewer (src/gui.py): the GUI object's state, its render loop,    *)
(* its toolkit callbacks, the orbit camera and the adaptive train-step     *)
(* scheduler of GUI.train_step.                                            *)
(*                                                                         *)
(* Numbers.  Durations are whole milliseconds.  Colour values, the ambient *)
(* ratio and clip-space depth are fixed-point integers with denominator    *)
(* One (buffer entries: denominator One*One).  Slider angles are integers  *)
(* in units of 1/AngleDen degree.  The camera centre is in units of the    *)
(* pan sensitivity 0.0005, the radius is the exact rational <<num, den>>   *)
(* (<<1, 0>> is inf, <<0, 0>> is NaN); cam.nonfinite names the array       *)
(* fields, rot and center, that hold a NaN or infinite component.          *)
(*                                                                         *)
(* Collaborators outside src/gui.py (the trainer, the GET3D generator, the *)
(* nvdiffrast rasterizer, the toolkit) are inputs: an action draws what    *)
(* they return from a finite set.                                          *)
(***************************************************************************)
EXTENDS Integers, Sequences, FiniteSets, TLC

VARIABLES
    cam,            \* self.cam: [W, H, radius, fovy, center, rot, nonfinite]
    render_buffer,  \* self.render_buffer: one RGB triple per pixel
    need_update,    \* self.need_update
    light_dir,      \* self.light_dir: <<theta, phi>>, an integer array
    ambient_ratio,  \* self.ambient_ratio
    mode,           \* self.mode
    mesh,           \* self.mesh: None or <<id>>
    training,       \* self.training
    step,           \* self.step
    train_steps,    \* self.train_steps
    pc,             \* position of GUI.render's loop
    local,          \* test_step's locals while it runs: the buffer it shaded
    hist,           \* history: what render_buffer was rendered from, and what
                    \* the current loop iteration has done so far
    last,           \* the operation that ran last, with its inputs and locals
    raised,         \* the exception the last operation raised, or "none"
    ms_per_unit,    \* the synthetic trainer's cost per unit (0: any duration)
    n_events        \* input events delivered so far

vars == <<cam, render_buffer, need_update, light_dir, ambient_ratio, mode,
          mesh, training, step, train_steps, pc, local, hist, last, raised,
          ms_per_unit, n_events>>

gui_fields == <<cam, render_buffer, need_update, light_dir, ambient_ratio,
                mode, mesh, training, step, train_steps>>

-----------------------------------------------------------------------------
(* Bounds of the model.                                                    *)

\* measured durations are multiples of TickMs, up to MaxTick ticks
TickMs == 20
MaxTick == 100
\* train_step is not invoked once step would pass MaxStep
MaxStep == 64
\* the user delivers at most MaxEvents input events (callbacks)
MaxEvents == 3
\* callback_get_mesh generates one of NumMeshes meshes
NumMeshes == 1
\* the image has NumPixels pixels
NumPixels == 1
\* the camera centre stays within MaxPan pan units of the origin
MaxPan == 1
\* the wheel zooms at most MaxZoom notches in or out
MaxZoom == 1
\* the synthetic trainer costs 1..MaxK ms per unit
MaxK == 140
\* viewports are 1..MaxViewport pixels wide and high
MaxViewport == 8

-----------------------------------------------------------------------------
(* Program constants.                                                      *)

InitTrainSteps == 16
MinTrainSteps == 4
MaxTrainSteps == 16
ReferenceUnits == 16
BudgetMs == 500

Min(a, b) == IF a < b THEN a ELSE b
Max(a, b) == IF a > b THEN a ELSE b

None == <<>>

\* what `last` holds: the operation's name and its inputs or locals.
\*   a, b, c  integers (train_step: a = t, b = train_steps on entry, c = the
\*            candidate; a callback: its numeric inputs)
\*   s        a string input (the mode of callback_change_mode)
\*   flag     a boolean (a camera callback: the window was focused;
\*            test_step: need_update on entry)
\*   rast     the raster samples test_step rendered from, None if it did not
Op(name, a, b, c) ==
    [op |-> name, a |-> a, b |-> b, c |-> c, s |-> "", flag |-> FALSE,
     rast |-> None]

-----------------------------------------------------------------------------
(* GUI.train_step: the adaptive scheduler (lines 201-206).                 *)

RECURSIVE Pow2(_)
Pow2(n) == IF n = 0 THEN 1 ELSE 2 * Pow2(n - 1)

\* 2^n mod u, by repeated doubling
RECURSIVE Pow2Mod(_, _)
Pow2Mod(n, u) == IF n = 0 THEN 1 % u ELSE (2 * Pow2Mod(n - 1, u)) % u

\* floor(log2(a/b)) for a, b > 0: the binary exponent of the double a/b
RECURSIVE Log2Floor(_, _)
Log2Floor(a, b) ==
    IF a >= 2 * b THEN 1 + Log2Floor(a, 2 * b)
    ELSE IF a < b THEN Log2Floor(2 * a, b) - 1
    ELSE 0

(* full_t = t / self.train_steps * 16 and 16 * 500 / full_t are binary64   *)
(* operations.  The product by 16 is exact; t/u is rounded to 53 bits, and *)
(* so is the quotient 8000/full_t.  The rounded quotient has the integer   *)
(* part of the exact 500*u/t except when 500*u/t is an integer n, t/u was  *)
(* rounded up, and the quotient then rounds to the double just below n.    *)
(* With e = Log2Floor(t, u), the 53-bit significand of t/u leaves the      *)
(* remainder r = t * 2^(52-e) mod u: t/u is rounded up when 2r > u, by     *)
(* (u-r)/u units in its last place, and n/(t/u rounded) misses n by more   *)
(* than half the gap below n when                                          *)
(*     g * n * (u-r) * 2^e > t * 2^Log2Floor(n, 1),                        *)
(* g = 4 for n a power of two (the gap below it is halved), else g = 2.    *)
FloatFallsShort(t, u) ==
    LET n  == (BudgetMs * u) \div t
        e  == Log2Floor(t, u)
        en == Log2Floor(n, 1)
        r  == ((t % u) * Pow2Mod(52 - e, u)) % u
        g  == IF n = Pow2(en) THEN 4 ELSE 2
        lhs == g * n * (u - r) * (IF e >= 0 THEN Pow2(e) ELSE 1)
        rhs == t * Pow2(en) * (IF e < 0 THEN Pow2(-e) ELSE 1)
    IN  /\ (BudgetMs * u) % t = 0
        /\ 2 * r > u
        /\ lhs > rhs

\* the quotient rounded to the nearest integer, as round() does (a half goes
\* to the even neighbour), where line 204 truncates
RoundQuot(t, u) ==
    LET n == (BudgetMs * u) \div t
        rem2 == 2 * ((BudgetMs * u) % t)
    IN  IF rem2 > t \/ (rem2 = t /\ n % 2 = 1) THEN n + 1 ELSE n

\* the quotient taken of the measured duration itself, where line 203 first
\* scales it to the duration of 16 units
UnnormalisedQuot(t, u) == (ReferenceUnits * BudgetMs) \div t

\* int(16 * 500 / full_t), full_t = t / u * 16, for t > 0: int() truncates
TruncQuot(t, u) ==
    LET n == (ReferenceUnits * BudgetMs * u) \div (ReferenceUnits * t)
    IN  IF FloatFallsShort(t, u) THEN n - 1 ELSE n

\* min(16, max(4, .)) of line 204
Clamp(q) == Min(MaxTrainSteps, Max(MinTrainSteps, q))

\* the candidate with its lower clamp left out
CandidateNoFloor(t, u) == Min(MaxTrainSteps, TruncQuot(t, u))

\* the local train_steps of line 204
Candidate(t, u) == Clamp(TruncQuot(t, u))

\* a hysteresis that also commits at exactly 20%
CommitInclusive(c, u) == 5 * c >= 6 * u \/ 5 * c <= 4 * u

\* line 205: train_steps > self.train_steps * 1.2 or train_steps <
\* self.train_steps * 0.8.  For 4 <= u, c <= 17 the doubles u*1.2 and u*0.8
\* compare with the integer c as the exact products 6u/5 and 4u/5 do.
Commit(c, u) == 5 * c > 6 * u \/ 5 * c < 4 * u

\* lines 205-206: the value self.train_steps has after the update
NextUnits(c, u) == IF Commit(c, u) THEN c ELSE u

\* a train_step that leaves need_update as it finds it
train_step_keeps_flag(t) ==
    LET u == train_steps
        c == IF t > 0 THEN Candidate(t, u) ELSE 0
    IN  /\ step' = step + u
        /\ last' = Op("train_step", t, u, c)
        /\ IF t = 0
           THEN /\ raised' = "ZeroDivisionError"
                /\ train_steps' = train_steps
           ELSE /\ raised' = "none"
                /\ train_steps' = NextUnits(c, u)
        /\ UNCHANGED <<cam, render_buffer, need_update, light_dir,
                       ambient_ratio, mode, mesh, training, ms_per_unit>>

\* a train_step that counts the adjusted unit size, not the one it ran
train_step_counts_adjusted(t) ==
    LET u == train_steps
        c == IF t > 0 THEN Candidate(t, u) ELSE 0
    IN  /\ step' = step + (IF t = 0 THEN u ELSE NextUnits(c, u))
        /\ need_update' = TRUE
        /\ last' = Op("train_step", t, u, c)
        /\ IF t = 0
           THEN /\ raised' = "ZeroDivisionError"
                /\ train_steps' = train_steps
           ELSE /\ raised' = "none"
                /\ train_steps' = NextUnits(c, u)
        /\ UNCHANGED <<cam, render_buffer, light_dir, ambient_ratio, mode,
                       mesh, training, ms_per_unit>>

(* GUI.train_step with the measured duration t (ms, t >= 0).  The trainer  *)
(* runs last.b = self.train_steps units (line 189).                        *)
(* (self.trainer, self.loader) is supplied by the embedding program; its   *)
(* outputs only feed the log line.  With t = 0 the f-string of line 198    *)
(* divides by zero: lines 195-196 have run, lines 203-206 have not.        *)
train_step(t) ==
    LET u == train_steps
        c == IF t > 0 THEN Candidate(t, u) ELSE 0
    IN  /\ step' = step + u
        /\ need_update' = TRUE
        /\ last' = Op("train_step", t, u, c)
        /\ IF t = 0
           THEN /\ raised' = "ZeroDivisionError"
                /\ train_steps' = train_steps
           ELSE /\ raised' = "none"
                /\ train_steps' = NextUnits(c, u)
        /\ UNCHANGED <<cam, render_buffer, light_dir, ambient_ratio, mode,
                       mesh, training, ms_per_unit>>

-----------------------------------------------------------------------------
(* OrbitCamera (lines 34-94).  Rotations are 3x3 integer matrices, rows    *)
(* first: drags are whole quarter turns, 1800 input units each             *)
(* (0.05 degree per unit).                                                 *)

QuarterTurn == 1800
DefaultRadius == 3
DefaultFovy == 50
DefaultW == 1024
DefaultH == 1024

Identity3 == << <<1, 0, 0>>, <<0, 1, 0>>, <<0, 0, 1>> >>

MatMul(A, B) ==
    [i \in 1..3 |-> [j \in 1..3 |->
        A[i][1] * B[1][j] + A[i][2] * B[2][j] + A[i][3] * B[3][j]]]

MatVec(A, v) ==
    [i \in 1..3 |-> A[i][1] * v[1] + A[i][2] * v[2] + A[i][3] * v[3]]

\* sine and cosine of q quarter turns
SinQ(q) == CASE q % 4 = 0 -> 0 [] q % 4 = 1 -> 1 [] q % 4 = 2 -> 0 [] OTHER -> -1
CosQ(q) == CASE q % 4 = 0 -> 1 [] q % 4 = 1 -> 0 [] q % 4 = 2 -> -1 [] OTHER -> 0

\* R.from_rotvec(axis * angle) for a unit axis and q quarter turns:
\* I + sin K + (1 - cos) K^2, K the cross-product matrix of the axis
FromRotvec(axis, q) ==
    LET K == << <<0, -axis[3], axis[2]>>,
                <<axis[3], 0, -axis[1]>>,
                <<-axis[2], axis[1], 0>> >>
        K2 == MatMul(K, K)
    IN  [i \in 1..3 |-> [j \in 1..3 |->
            Identity3[i][j] + SinQ(q) * K[i][j] + (1 - CosQ(q)) * K2[i][j]]]

Up == <<0, 1, 0>>

\* OrbitCamera.__init__ as GUI.__init__ calls it
OrbitCamera(W, H, r, fovy) ==
    [W |-> W, H |-> H, radius |-> <<r, 1>>, fovy |-> fovy,
     center |-> <<0, 0, 0>>, rot |-> Identity3, nonfinite |-> {}]

\* OrbitCamera.intrinsics (lines 66-69): focal in units of
\* 1 / (2 * tan(radians(fovy) / 2)) pixel, where it is H; cx and cy in half
\* pixels.  W // 2 and H // 2 are floor divisions.
intrinsics(c) ==
    [focal |-> c.H, cx |-> 2 * (c.W \div 2), cy |-> 2 * (c.H \div 2)]

\* OrbitCamera.orbit; dx and dy are multiples of QuarterTurn, and
\* np.radians(-0.05 * dx) is -(dx / QuarterTurn) quarter turns.  A rotation
\* that holds NaN stays NaN under composition.
orbit(c, dx, dy) ==
    LET side == <<c.rot[1][1], c.rot[2][1], c.rot[3][1]>>
        rx == FromRotvec(Up, -(dx \div QuarterTurn))
        ry == FromRotvec(side, -(dy \div QuarterTurn))
    IN  IF "rot" \in c.nonfinite THEN c
        ELSE [c EXCEPT !.rot = MatMul(rx, MatMul(ry, c.rot))]

\* the arguments that are not finite floats
NonFinite == {"nan", "inf", "-inf"}

\* OrbitCamera.orbit with a NaN or infinite dx or dy: self.up * radians(.)
\* has a NaN component (0 * inf, or NaN itself), R.from_rotvec of it is a NaN
\* rotation, and so is the product assigned to self.rot
orbit_nonfinite(c) == [c EXCEPT !.nonfinite = @ \cup {"rot"}]

RECURSIVE Gcd(_, _)
Gcd(a, b) == IF b = 0 THEN a ELSE Gcd(b, a % b)

RECURSIVE Pow(_, _)
Pow(b, n) == IF n = 0 THEN 1 ELSE b * Pow(b, n - 1)

\* num/den in lowest terms; 0/0 (NaN) stays <<0, 0>>
Reduce(num, den) ==
    LET g == Gcd(num, den)
    IN  IF g = 0 THEN <<0, 0>> ELSE <<num \div g, den \div g>>

\* OrbitCamera.scale: self.radius *= 1.1 ** (-delta), 1.1 = 11/10
scale(c, delta) ==
    LET num == c.radius[1] * (IF delta >= 0 THEN Pow(10, delta) ELSE Pow(11, -delta))
        den == c.radius[2] * (IF delta >= 0 THEN Pow(11, delta) ELSE Pow(10, -delta))
    IN  [c EXCEPT !.radius = Reduce(num, den)]

\* 1.1 ** (-delta) for a delta that is not finite: 1.1 ** (-inf) is 0.0,
\* 1.1 ** inf is inf, 1.1 ** nan is nan
PowNonFinite(d) ==
    CASE d = "inf" -> <<0, 1>> [] d = "-inf" -> <<1, 0>> [] OTHER -> <<0, 0>>

\* OrbitCamera.scale with a NaN or infinite delta: the radius is multiplied
\* by 0.0, inf or nan (0 * inf and anything * nan are nan)
scale_nonfinite(c, d) ==
    LET f == PowNonFinite(d)
    IN  [c EXCEPT !.radius = Reduce(c.radius[1] * f[1], c.radius[2] * f[2])]

\* OrbitCamera.pan: self.center += 0.0005 * rot @ [dx, -dy, dz]; a centre
\* that is not finite stays so, a NaN rotation makes the sum NaN
pan(c, dx, dy, dz) ==
    LET d == MatVec(c.rot, <<dx, -dy, dz>>)
    IN  IF "center" \in c.nonfinite THEN c
        ELSE IF "rot" \in c.nonfinite
        THEN [c EXCEPT !.nonfinite = @ \cup {"center"}]
        ELSE [c EXCEPT !.center = [i \in 1..3 |-> c.center[i] + d[i]]]

\* OrbitCamera.pan with a NaN or infinite dx or dy: every component of
\* rot @ [dx, -dy, dz] is an infinity or (0 * inf, inf - inf, nan) a NaN
pan_nonfinite(c) == [c EXCEPT !.nonfinite = @ \cup {"center"}]

\* the bounds of the model on the camera: the centre within MaxPan units,
\* the radius within MaxZoom wheel notches of its default, or 0.0, inf or nan
CamInBounds(c) ==
    /\ \A i \in 1..3 : c.center[i] \in -MaxPan..MaxPan
    /\ \/ c.radius \in {<<0, 1>>, <<1, 0>>, <<0, 0>>}
       \/ \E z \in -MaxZoom..MaxZoom :
              c.radius = scale(OrbitCamera(1, 1, DefaultRadius, 1), z).radius

-----------------------------------------------------------------------------
(* Shading (GUI.test_step, lines 230-254) of one pixel.  A raster sample   *)
(* is what the rasterizer and the interpolators return for the pixel:      *)
(*   z   rast[..., 2], clip-space z/w, fixed point with denominator One    *)
(*   aa  the antialiased albedo before .clamp(0, 1), one value per channel *)
(*   n   the interpolated normal before safe_normalize, integer vector     *)

HalfOne == 1
One == 2 * HalfOne

Modes == {"albedo", "depth", "normal", "lambertian"}

\* integer square root of a perfect square
ISqrt(s) == CHOOSE k \in 0..s : k * k = s

\* safe_normalize (line 31-32): x / sqrt(clamp(sum(x*x), min=1e-20)); the
\* zero vector stays zero, an axis-aligned vector becomes a unit vector
safe_normalize(x) ==
    LET s == x[1] * x[1] + x[2] * x[2] + x[3] * x[3]
    IN  IF s = 0 THEN <<0, 0, 0>>
        ELSE [i \in 1..3 |-> x[i] \div ISqrt(s)]

\* sine and cosine of a whole number of degrees that is a multiple of 90
SinDeg(d) == SinQ(d \div 90)
CosDeg(d) == CosQ(d \div 90)

\* lines 246-251: the light direction of the two stored angles
LightVector(ld) ==
    <<SinDeg(ld[1]) * SinDeg(ld[2]), CosDeg(ld[1]), SinDeg(ld[1]) * CosDeg(ld[2])>>

Dot(a, b) == a[1] * b[1] + a[2] * b[2] + a[3] * b[3]

\* .clamp(0, 1) of line 237
Clamp01(v) == Min(One, Max(0, v))

\* a shading whose light term is not weighted by (1 - ambient_ratio)
ShadePixelUnweighted(m, s, amb, ld) ==
    LET albedo == [i \in 1..3 |-> Clamp01(s.aa[i])]
        normal == safe_normalize(s.n)
        lambertian == amb + Max(0, Dot(normal, LightVector(ld)))
    IN  CASE m = "depth" -> [i \in 1..3 |-> s.z * One]
          [] m = "albedo" -> [i \in 1..3 |-> albedo[i] * One]
          [] m = "normal" -> [i \in 1..3 |-> ((normal[i] + 1) * One * One) \div 2]
          [] OTHER -> [i \in 1..3 |-> albedo[i] * lambertian]

\* the buffer entry (denominator One*One) of one pixel in mode m
ShadePixel(m, s, amb, ld) ==
    LET albedo == [i \in 1..3 |-> Clamp01(s.aa[i])]
        normal == safe_normalize(s.n)
        lambertian == amb + (One - amb) * Max(0, Dot(normal, LightVector(ld)))
    IN  CASE m = "depth" -> [i \in 1..3 |-> s.z * One]
          [] m = "albedo" -> [i \in 1..3 |-> albedo[i] * One]
          [] m = "normal" -> [i \in 1..3 |-> ((normal[i] + 1) * One * One) \div 2]
          [] OTHER -> [i \in 1..3 |-> albedo[i] * lambertian]

\* the buffer test_step computes from the raster samples of all pixels
Shade(m, rast, amb, ld) ==
    [p \in 1..NumPixels |-> ShadePixel(m, rast[p], amb, ld)]

-----------------------------------------------------------------------------
\* a test_step that clears need_update on its early return too
test_step_clears_early(rast) ==
    /\ raised' = "none"
    /\ need_update' = FALSE
    /\ IF need_update /\ mesh # None
       THEN /\ render_buffer' = Shade(mode, rast, ambient_ratio, light_dir)
            /\ last' = [Op("test_step", 0, 0, 0) EXCEPT !.rast = rast,
                                                        !.flag = need_update]
       ELSE /\ UNCHANGED render_buffer
            /\ last' = [Op("test_step", 0, 0, 0) EXCEPT !.flag = need_update]
    /\ UNCHANGED <<cam, light_dir, ambient_ratio, mode, mesh, training, step,
                   train_steps, ms_per_unit>>

\* a test_step that renders whenever there is a mesh, dirty or not
test_step_ignores_flag(rast) ==
    /\ raised' = "none"
    /\ IF mesh # None
       THEN /\ render_buffer' = Shade(mode, rast, ambient_ratio, light_dir)
            /\ need_update' = FALSE
            /\ last' = [Op("test_step", 0, 0, 0) EXCEPT !.rast = rast,
                                                        !.flag = need_update]
       ELSE /\ UNCHANGED <<render_buffer, need_update>>
            /\ last' = [Op("test_step", 0, 0, 0) EXCEPT !.flag = need_update]
    /\ UNCHANGED <<cam, light_dir, ambient_ratio, mode, mesh, training, step,
                   train_steps, ms_per_unit>>

\* a test_step that renders and leaves need_update set
test_step_keeps_flag(rast) ==
    /\ raised' = "none"
    /\ IF need_update /\ mesh # None
       THEN /\ render_buffer' = Shade(mode, rast, ambient_ratio, light_dir)
            /\ last' = [Op("test_step", 0, 0, 0) EXCEPT !.rast = rast,
                                                        !.flag = need_update]
       ELSE /\ UNCHANGED render_buffer
            /\ last' = [Op("test_step", 0, 0, 0) EXCEPT !.flag = need_update]
    /\ UNCHANGED <<cam, need_update, light_dir, ambient_ratio, mode, mesh,
                   training, step, train_steps, ms_per_unit>>

(* GUI.test_step (lines 210-264).  rast: the raster samples the rasterizer *)
(* would return for the current camera and mesh.                           *)
test_step(rast) ==
    /\ raised' = "none"
    /\ IF need_update /\ mesh # None
       THEN /\ render_buffer' = Shade(mode, rast, ambient_ratio, light_dir)
            /\ need_update' = FALSE
            /\ last' = [Op("test_step", 0, 0, 0) EXCEPT !.rast = rast,
                                                        !.flag = need_update]
       ELSE /\ UNCHANGED <<render_buffer, need_update>>
            /\ last' = [Op("test_step", 0, 0, 0) EXCEPT !.flag = need_update]
    /\ UNCHANGED <<cam, light_dir, ambient_ratio, mode, mesh, training, step,
                   train_steps, ms_per_unit>>

-----------------------------------------------------------------------------
(* The toolkit callbacks of GUI.register_dpg (lines 308-442).  Each sets   *)
(* `last` to its name and inputs and `raised` to what it raised.           *)

\* slider angles are integers in units of 1/AngleDen degree
AngleDen == 2

\* self.light_dir = np.array([0, 0]) (line 154) is an integer array: storing
\* the slider's float (v / AngleDen degrees) keeps its integer part
StoreAngle(v) == v \div AngleDen

\* lines 308-314; generated: the mesh the generator returns
callback_get_mesh(generated) ==
    /\ mesh' = generated
    /\ need_update' = TRUE
    /\ last' = Op("callback_get_mesh", generated[1], 0, 0)
    /\ raised' = "none"
    /\ UNCHANGED <<cam, render_buffer, light_dir, ambient_ratio, mode,
                   training, step, train_steps, ms_per_unit>>

\* lines 324-327: self.mesh.write('mesh.obj'); None has no attribute write
callback_save_mesh ==
    /\ last' = Op("callback_save_mesh", 0, 0, 0)
    /\ raised' = IF mesh = None THEN "AttributeError" ELSE "none"
    /\ UNCHANGED <<gui_fields, ms_per_unit>>

\* lines 338-344
callback_train ==
    /\ training' = ~training
    /\ last' = Op("callback_train", 0, 0, 0)
    /\ raised' = "none"
    /\ UNCHANGED <<cam, render_buffer, need_update, light_dir, ambient_ratio,
                   mode, mesh, step, train_steps, ms_per_unit>>

\* lines 356-358
callback_change_mode(app_data) ==
    /\ mode' = app_data
    /\ need_update' = TRUE
    /\ last' = [Op("callback_change_mode", 0, 0, 0) EXCEPT !.s = app_data]
    /\ raised' = "none"
    /\ UNCHANGED <<cam, render_buffer, light_dir, ambient_ratio, mesh,
                   training, step, train_steps, ms_per_unit>>

\* lines 363-365
callback_set_fovy(app_data) ==
    /\ cam' = [cam EXCEPT !.fovy = app_data]
    /\ need_update' = TRUE
    /\ last' = Op("callback_set_fovy", app_data, 0, 0)
    /\ raised' = "none"
    /\ UNCHANGED <<render_buffer, light_dir, ambient_ratio, mode, mesh,
                   training, step, train_steps, ms_per_unit>>

\* lines 370-372; user_data: 0 for theta, 1 for phi; app_data: the slider's
\* value in 1/AngleDen degree
callback_set_light_dir(app_data, user_data) ==
    /\ light_dir' = [light_dir EXCEPT ![user_data + 1] = StoreAngle(app_data)]
    /\ need_update' = TRUE
    /\ last' = Op("callback_set_light_dir", app_data, user_data, 0)
    /\ raised' = "none"
    /\ UNCHANGED <<cam, render_buffer, ambient_ratio, mode, mesh, training,
                   step, train_steps, ms_per_unit>>

\* lines 384-386
callback_set_abm_ratio(app_data) ==
    /\ ambient_ratio' = app_data
    /\ need_update' = TRUE
    /\ last' = Op("callback_set_abm_ratio", app_data, 0, 0)
    /\ raised' = "none"
    /\ UNCHANGED <<cam, render_buffer, light_dir, mode, mesh, training, step,
                   train_steps, ms_per_unit>>

\* what a camera callback does to cam and need_update: nothing unless the
\* primary window is focused (lines 403-404, 418-419, 432-433)
CameraEvent(focused, moved) ==
    /\ IF focused
       THEN /\ cam' = moved
            /\ CamInBounds(cam')
            /\ need_update' = TRUE
       ELSE UNCHANGED <<cam, need_update>>
    /\ raised' = "none"
    /\ UNCHANGED <<render_buffer, light_dir, ambient_ratio, mode, mesh,
                   training, step, train_steps, ms_per_unit>>

\* lines 401-413; app_data = (button, dx, dy)
callback_camera_drag_rotate(focused, dx, dy) ==
    /\ CameraEvent(focused, orbit(cam, dx, dy))
    /\ last' = [Op("callback_camera_drag_rotate", dx, dy, 0)
                   EXCEPT !.flag = focused]

\* lines 416-427; app_data = delta
callback_camera_wheel_scale(focused, delta) ==
    /\ CameraEvent(focused, scale(cam, delta))
    /\ last' = [Op("callback_camera_wheel_scale", delta, 0, 0)
                   EXCEPT !.flag = focused]

\* lines 430-442; app_data = (button, dx, dy)
callback_camera_drag_pan(focused, dx, dy) ==
    /\ CameraEvent(focused, pan(cam, dx, dy, 0))
    /\ last' = [Op("callback_camera_drag_pan", dx, dy, 0)
                   EXCEPT !.flag = focused]

-----------------------------------------------------------------------------
(* GUI.render (lines 470-477): one loop iteration is train (when training) *)
(* , test, frame.  Callbacks run on the toolkit's callback thread, between *)
(* the steps of the loop.                                                  *)

\* what test_step renders from (lines 221-253)
RenderInputs ==
    [cam |-> cam, mesh |-> mesh, mode |-> mode, light_dir |-> light_dir,
     ambient_ratio |-> ambient_ratio]

\* hist when a loop iteration begins (line 472 passed):
\*   dirty0    need_update was set and a mesh present at that moment
\*   ev0       the input events delivered before it
\*   trained   train_step ran in the iteration
\*   rendered  test_step rendered in the iteration
\*   ran       the units the trainer has run in all (line 189)
\*   fresh     render_buffer was written by a test_step
\*   src       the RenderInputs that render_buffer was rendered from
BeginIteration(trains, units) ==
    [hist EXCEPT !.dirty0 = need_update /\ mesh # None,
                 !.ev0 = n_events,
                 !.trained = trains,
                 !.rendered = FALSE,
                 !.ran = @ + units]

\* line 472 with the toolkit still running, lines 474-475 with training on
render_train(durations) ==
    /\ pc = "while"
    /\ training
    /\ step + train_steps <= MaxStep
    /\ \E t \in durations : train_step(t)
    /\ pc' = IF raised' = "none" THEN "test" ELSE "done"
    /\ hist' = BeginIteration(TRUE, last'.b)
    /\ UNCHANGED <<n_events, local>>

\* line 474 with training off
render_no_train ==
    /\ pc = "while"
    /\ ~training
    /\ pc' = "test"
    /\ hist' = BeginIteration(FALSE, 0)
    /\ UNCHANGED <<gui_fields, last, raised, ms_per_unit, n_events, local>>

\* line 476
render_test(samples) ==
    /\ pc = "test"
    /\ \E rast \in [1..NumPixels -> samples] : test_step(rast)
    /\ pc' = "frame"
    /\ hist' = IF last'.rast # None
               THEN [hist EXCEPT !.rendered = TRUE, !.fresh = TRUE,
                                 !.src = RenderInputs]
               ELSE hist
    /\ UNCHANGED <<n_events, local>>

\* line 477: dpg.render_dearpygui_frame() presents self.render_buffer
render_frame ==
    /\ pc = "frame"
    /\ pc' = "while"
    /\ UNCHANGED <<gui_fields, last, raised, ms_per_unit, n_events, local,
                   hist>>

\* line 472 with the toolkit stopped
render_exit ==
    /\ pc = "while"
    /\ pc' = "done"
    /\ UNCHANGED <<gui_fields, last, raised, ms_per_unit, n_events, local,
                   hist>>

\* the toolkit delivers the input event that runs callback cb
Deliver(cb) ==
    /\ pc # "done"
    /\ n_events < MaxEvents
    /\ n_events' = n_events + 1
    /\ cb
    /\ UNCHANGED <<pc, local, hist>>

-----------------------------------------------------------------------------
(* GUI.__init__ (lines 146-177) with the defaults of main's options; its   *)
(* closing test_step returns at once, there being no mesh.                 *)

\* no test_step is running: its locals hold the values of construction
LocalIdle ==
    [buffer |-> [p \in 1..NumPixels |-> <<0, 0, 0>>],
     rast |-> None,
     src |-> [cam |-> OrbitCamera(DefaultW, DefaultH, DefaultRadius, DefaultFovy),
              mesh |-> None, mode |-> "lambertian", light_dir |-> <<0, 0>>,
              ambient_ratio |-> HalfOne]]

\* nothing has been rendered, trained or delivered
HistInit ==
    [src |-> LocalIdle.src, fresh |-> FALSE, dirty0 |-> FALSE, ev0 |-> 0,
     trained |-> FALSE, rendered |-> FALSE, ran |-> 0]

Init ==
    /\ cam = OrbitCamera(DefaultW, DefaultH, DefaultRadius, DefaultFovy)
    /\ render_buffer = [p \in 1..NumPixels |-> <<0, 0, 0>>]
    /\ need_update = TRUE
    /\ light_dir = <<0, 0>>
    /\ ambient_ratio = HalfOne
    /\ mode = "lambertian"
    /\ mesh = None
    /\ training = FALSE
    /\ step = 0
    /\ train_steps = InitTrainSteps
    /\ pc = "while"
    /\ local = LocalIdle
    /\ hist = HistInit
    /\ last = Op("__init__", 0, 0, 0)
    /\ raised = "none"
    /\ ms_per_unit = 0
    /\ n_events = 0

-----------------------------------------------------------------------------
(* Input sets.                                                             *)

Meshes == {<<i>> : i \in 1..NumMeshes}

\* a background pixel, and a covered pixel in the near half of the frustum
BackgroundSample == [z |-> 0, aa |-> <<0, 0, 0>>, n |-> <<0, 0, 0>>]
NearSample == [z |-> -HalfOne, aa |-> <<One, HalfOne, 0>>, n |-> <<0, 2, 0>>]
LoopSamples == {BackgroundSample, NearSample}

\* every frame's training takes twice the budget
LoopDurations == {2 * BudgetMs}

\* slider positions: whole right angles and one just past a right angle
LightSlider == {90 * AngleDen, 90 * AngleDen + 1}
FovySlider == {1, 120}
AmbientSlider == {0, One}

\* <<focused, dx, dy>> of a drag, <<focused, delta>> of the wheel
RotateInputs == {<<TRUE, QuarterTurn, 0>>, <<TRUE, 0, QuarterTurn>>,
                 <<FALSE, QuarterTurn, 0>>}
PanInputs == {<<TRUE, 1, 0>>, <<TRUE, 0, 1>>, <<FALSE, 1, 0>>}
WheelInputs == {<<TRUE, 1>>, <<TRUE, -1>>, <<FALSE, 1>>}

-----------------------------------------------------------------------------
(* The program: the render loop and every callback.                        *)

Next ==
    \/ render_train(LoopDurations)
    \/ render_no_train
    \/ render_test(LoopSamples)
    \/ render_frame
    \/ render_exit
    \/ \E m \in Meshes : Deliver(callback_get_mesh(m))
    \/ Deliver(callback_save_mesh)
    \/ Deliver(callback_train)
    \/ \E m \in Modes : Deliver(callback_change_mode(m))
    \/ \E f \in FovySlider : Deliver(callback_set_fovy(f))
    \/ \E v \in LightSlider, i \in {0, 1} : Deliver(callback_set_light_dir(v, i))
    \/ \E a \in AmbientSlider : Deliver(callback_set_abm_ratio(a))
    \/ \E e \in RotateInputs : Deliver(callback_camera_drag_rotate(e[1], e[2], e[3]))
    \/ \E e \in WheelInputs : Deliver(callback_camera_wheel_scale(e[1], e[2]))
    \/ \E e \in PanInputs : Deliver(callback_camera_drag_pan(e[1], e[2], e[3]))

Spec == Init /\ [][Next]_vars

-----------------------------------------------------------------------------
(* The scheduler under the render loop: training is switched on and off,   *)
(* and a frame's training takes any duration of Durations.                 *)

Durations == {TickMs * i : i \in 0..MaxTick}

NextSched ==
    \/ render_train(Durations)
    \/ render_no_train
    \/ render_test(LoopSamples)
    \/ render_frame
    \/ render_exit
    \/ Deliver(callback_train)

SpecSched == Init /\ [][NextSched]_vars

-----------------------------------------------------------------------------
(* The scheduler under a synthetic trainer that takes exactly ms_per_unit  *)
(* ms per unit: train_step is invoked again and again, from any unit size  *)
(* the scheduler can hold.                                                 *)

InitConv ==
    /\ cam = OrbitCamera(DefaultW, DefaultH, DefaultRadius, DefaultFovy)
    /\ render_buffer = [p \in 1..NumPixels |-> <<0, 0, 0>>]
    /\ need_update = TRUE
    /\ light_dir = <<0, 0>>
    /\ ambient_ratio = HalfOne
    /\ mode = "lambertian"
    /\ mesh = None
    /\ training = TRUE
    /\ step = 0
    /\ train_steps \in MinTrainSteps..MaxTrainSteps
    /\ pc = "while"
    /\ local = LocalIdle
    /\ hist = HistInit
    /\ last = Op("__init__", 0, 0, 0)
    /\ raised = "none"
    /\ ms_per_unit \in 1..MaxK
    /\ n_events = 0

synthetic_train_step ==
    /\ step + train_steps <= MaxStep
    /\ train_step(ms_per_unit * train_steps)
    /\ hist' = BeginIteration(TRUE, last'.b)
    /\ UNCHANGED <<pc, n_events, local>>

NextConv == synthetic_train_step

SpecConv == InitConv /\ [][NextConv]_vars

-----------------------------------------------------------------------------
(* Properties of the scheduler.                                            *)

\* the last operation was a train_step that measured a positive duration
Measured == last.op = "train_step" /\ last.a > 0

\* C1: train_steps is an integer between 4 and 16 in every state, whatever
\* positive (or zero) durations the train_step invocations measured.
C1_SchedulerBound == train_steps \in 4..16

\* C1 witness: a train_step took the unit size down to the lower bound
C1_Witness == Measured /\ last.b > 4 /\ train_steps = 4

\* C2: after a train_step that ran with unit size u = last.b and computed the
\* candidate c = last.c, train_steps is c if c > 1.2u or c < 0.8u and u
\* otherwise; u = 16 with t = 1000 ms gives c = 8 and train_steps = 8.
C2_Hysteresis ==
    Measured =>
        /\ train_steps = IF 5 * last.c > 6 * last.b \/ 5 * last.c < 4 * last.b
                         THEN last.c ELSE last.b
        /\ (last.b = 16 /\ last.a = 1000) => (last.c = 8 /\ train_steps = 8)

\* C2 witness: the train_step of the example
C2_Witness == Measured /\ last.b = 16 /\ last.a = 1000 /\ train_steps = 8

\* C3 as stated: the candidate is min(16, max(4, round(500 * u / t))).
C3_CandidateRounds ==
    Measured => last.c = Min(16, Max(4, RoundQuot(last.a, last.b)))

\* C3 amended: the candidate c is the quotient 500*u/t truncated, then
\* clamped to 4..16: it is never rounded up (c > 4 implies c <= 500u/t) and
\* it is at most one below the quotient (c < 16 implies 500u/t <= c + 1, with
\* equality only where the double quotient falls just short of an integer).
C3_CandidateTruncates ==
    Measured =>
        /\ last.c \in 4..16
        /\ last.c > 4 => last.c * last.a <= 500 * last.b
        /\ last.c < 16 => 500 * last.b <= (last.c + 1) * last.a
        /\ (last.c < 16 /\ (500 * last.b) % last.a # 0)
               => 500 * last.b < (last.c + 1) * last.a

\* C3 witness: 16 units in 900 ms, a quotient of 8.89, give the candidate 8
C3_Witness == Measured /\ last.b = 16 /\ last.a = 900 /\ last.c = 8

\* C4 as stated: a train_step that measured t <= 0 raises nothing and leaves
\* train_steps at the value it had on entry.
C4_MeasurementFailureAbsorbed ==
    (last.op = "train_step" /\ last.a <= 0) =>
        (raised = "none" /\ train_steps = last.b)

\* the candidate of a run at k ms per unit: min(16, max(4, floor(500 / k)))
InBandOfCandidate(u, k) ==
    \E c \in 4..16 :
        /\ c > 4 => c * k <= 500
        /\ c < 16 => 500 < (c + 1) * k
        /\ 4 * u <= 5 * c
        /\ 5 * c <= 6 * u

\* C5 as stated: once an invocation has left train_steps as it was, the
\* value is in 4..16 and train_steps * k is within 20% of 500 ms.
C5_ConvergesToTarget ==
    (last.op = "train_step" /\ last.b = train_steps) =>
        /\ train_steps \in 4..16
        /\ 400 <= train_steps * ms_per_unit
        /\ train_steps * ms_per_unit <= 600

\* C5 amended: at k ms per unit, no invocation after the first changes
\* train_steps, and after every invocation train_steps is in 4..16 and
\* within the hysteresis band of the candidate c = min(16, max(4,
\* floor(500/k))): 0.8 * train_steps <= c <= 1.2 * train_steps.
C5_ConvergesToCandidate ==
    [][/\ last.op = "train_step" => train_steps' = train_steps
       /\ last'.op = "train_step" =>
              /\ train_steps' \in 4..16
              /\ InBandOfCandidate(train_steps', ms_per_unit)]_vars

\* C5 witness: a second invocation has kept the unit size that the first one
\* changed
C5_Witness ==
    /\ last.op = "train_step"
    /\ last.b = train_steps
    /\ step > train_steps
    /\ (step - train_steps) % train_steps # 0

-----------------------------------------------------------------------------
(* Shading under the render loop: a mesh is generated, the mode, the light *)
(* and the ambient ratio are set, and the rasterizer returns any sample of *)
(* ShadeSamples for a pixel.                                               *)

\* antialiased albedo, possibly outside [0, 1] before the clamp
ShadeAlbedos ==
    {<<r, g, HalfOne>> : r \in {-1, HalfOne, One + 1}, g \in {0, One}}

\* interpolated normals: the zero vector and axis-aligned vectors
ShadeNormals ==
    {<<0, 0, 0>>, <<1, 0, 0>>, <<-1, 0, 0>>, <<0, 2, 0>>, <<0, -2, 0>>,
     <<0, 0, 1>>, <<0, 0, -3>>}

\* clip-space z/w of a visible point lies in [-1, 1]
ShadeSamples ==
    {[z |-> z, aa |-> aa, n |-> n] :
        z \in -One..One, aa \in ShadeAlbedos, n \in ShadeNormals}

ShadeLightSlider == {0, 90 * AngleDen, 180 * AngleDen}
ShadeAmbientSlider == 0..One

NextShade ==
    \/ render_no_train
    \/ render_test(ShadeSamples)
    \/ render_frame
    \/ render_exit
    \/ \E m \in Meshes : Deliver(callback_get_mesh(m))
    \/ \E m \in Modes : Deliver(callback_change_mode(m))
    \/ \E v \in ShadeLightSlider, i \in {0, 1} :
           Deliver(callback_set_light_dir(v, i))
    \/ \E a \in ShadeAmbientSlider : Deliver(callback_set_abm_ratio(a))

SpecShade == Init /\ [][NextShade]_vars

-----------------------------------------------------------------------------
(* Properties of the dirty flag, the callbacks and the render.             *)

\* the step of the render loop that runs test_step
TestStepRuns == pc = "test" /\ pc' = "frame"

\* the toolkit runs the callback named name
CallbackRuns(name) == n_events' = n_events + 1 /\ last'.op = name

\* C6: need_update goes from true to false only in a test_step that found a
\* mesh, rendered, and wrote what it rendered to render_buffer; no callback,
\* no train_step and no test_step that returns early clears it.
C6_ClearedOnlyByRender ==
    [][(need_update /\ ~need_update') =>
          /\ TestStepRuns
          /\ mesh # None
          /\ last'.rast # None
          /\ render_buffer' = Shade(mode, last'.rast, ambient_ratio, light_dir)]_vars

\* C6 witness: a test_step has rendered and cleared the flag
C6_Witness ==
    last.op = "test_step" /\ last.rast # None /\ last.flag /\ ~need_update

\* C7: a test_step that finds need_update false, or no mesh, changes neither
\* render_buffer nor the camera nor a rendering option, and leaves need_update
\* as it found it.
C7_TestStepNoOp ==
    [][(TestStepRuns /\ (~need_update \/ mesh = None)) =>
          UNCHANGED <<render_buffer, cam, mode, light_dir, ambient_ratio,
                      mesh, need_update>>]_vars

\* C7 witness: a test_step has found a mesh and a clean flag
C7_Witness ==
    /\ last.op = "test_step"
    /\ ~last.flag
    /\ mesh # None
    /\ \E p \in 1..NumPixels : render_buffer[p] # <<0, 0, 0>>

CameraCallbacks ==
    {"callback_camera_drag_rotate", "callback_camera_wheel_scale",
     "callback_camera_drag_pan"}

\* C8 as stated: when an option callback, or a camera callback with the
\* primary window focused, has returned, the field holds the value the event
\* supplied (the stored light angle equals the slider's value) and need_update
\* is true.
C8_EventsUpdateState ==
    /\ last.op = "callback_change_mode" => (mode = last.s /\ need_update)
    /\ last.op = "callback_set_fovy" => (cam.fovy = last.a /\ need_update)
    /\ last.op = "callback_set_light_dir" =>
           (light_dir[last.b + 1] * AngleDen = last.a /\ need_update)
    /\ last.op = "callback_set_abm_ratio" =>
           (ambient_ratio = last.a /\ need_update)
    /\ (last.op \in CameraCallbacks /\ last.flag) => need_update

\* C9 as stated: with no mesh, test_step and callback_save_mesh raise nothing
\* and change neither mesh nor render_buffer nor need_update.
C9_NoMeshIsNoFault ==
    [][(mesh = None /\ (TestStepRuns \/ CallbackRuns("callback_save_mesh"))) =>
          /\ raised' = "none"
          /\ UNCHANGED <<mesh, render_buffer, need_update>>]_vars

\* C10 as stated: every component of render_buffer lies in [0, 1], whatever
\* the mode of the render that wrote it.
C10_BufferInUnitRange ==
    \A p \in 1..NumPixels : \A i \in 1..3 :
        /\ 0 <= render_buffer[p][i]
        /\ render_buffer[p][i] <= One * One

\* the last operation was a test_step that rendered
Rendered == last.op = "test_step" /\ last.rast # None

\* C11: a lambertian render with ambient_ratio = 1.0 writes, for every pixel,
\* normal and light direction, exactly the buffer an albedo render of the
\* same raster samples writes.
C11_FullAmbientIsAlbedo ==
    (Rendered /\ mode = "lambertian" /\ ambient_ratio = One) =>
        render_buffer = Shade("albedo", last.rast, ambient_ratio, light_dir)

\* C11 witness: such a render of a lit pixel (the normal faces the light) of
\* non-black albedo
C11_Witness ==
    /\ Rendered
    /\ mode = "lambertian"
    /\ ambient_ratio = One
    /\ \E p \in 1..NumPixels :
           /\ Dot(safe_normalize(last.rast[p].n), LightVector(light_dir)) > 0
           /\ render_buffer[p] # <<0, 0, 0>>

-----------------------------------------------------------------------------
(* OrbitCamera on its own: orbit, scale and pan are called, MaxEvents      *)
(* times at most, with finite arguments and with NaN and the infinities.   *)

\* a method of self.cam is called; moved: the camera it leaves; a, b: its
\* finite arguments; arg: "finite", or the argument that is not
CamCall(name, moved, a, b, arg) ==
    /\ n_events < MaxEvents
    /\ n_events' = n_events + 1
    /\ cam' = moved
    /\ CamInBounds(cam')
    /\ last' = [Op(name, a, b, 0) EXCEPT !.s = arg]
    /\ raised' = "none"
    /\ UNCHANGED <<render_buffer, need_update, light_dir, ambient_ratio, mode,
                   mesh, training, step, train_steps, pc, local, hist,
                   ms_per_unit>>

OrbitArgs == {<<QuarterTurn, 0>>, <<0, QuarterTurn>>}
ScaleArgs == {1, -1}
PanArgs == {<<1, 0>>, <<0, 1>>}

cam_orbit ==
    \/ \E e \in OrbitArgs : CamCall("orbit", orbit(cam, e[1], e[2]), e[1], e[2], "finite")
    \/ \E d \in NonFinite : CamCall("orbit", orbit_nonfinite(cam), 0, 0, d)

cam_scale ==
    \/ \E delta \in ScaleArgs : CamCall("scale", scale(cam, delta), delta, 0, "finite")
    \/ \E d \in NonFinite : CamCall("scale", scale_nonfinite(cam, d), 0, 0, d)

cam_pan ==
    \/ \E e \in PanArgs : CamCall("pan", pan(cam, e[1], e[2], 0), e[1], e[2], "finite")
    \/ \E d \in NonFinite : CamCall("pan", pan_nonfinite(cam), 0, 0, d)

NextCam == cam_orbit \/ cam_scale \/ cam_pan

SpecCam == Init /\ [][NextCam]_vars

\* the radius is a finite value > 0, the centre and the rotation are finite
CamFinite(c) ==
    /\ c.radius[1] > 0
    /\ c.radius[2] > 0
    /\ c.nonfinite = {}

\* C12 as stated: orbit, scale and pan called with a NaN or infinite argument
\* leave rotation, radius and centre exactly as they were, so that after any
\* sequence of camera operations the radius is finite and > 0 and the centre
\* is finite.
C12_NonFiniteRejected ==
    [][/\ (n_events' # n_events /\ last'.s \in NonFinite) => cam' = cam
       /\ CamFinite(cam')]_vars

-----------------------------------------------------------------------------
(* OrbitCamera.intrinsics of a camera of any viewport size.                *)

InitIntrinsics ==
    /\ \E W \in 1..MaxViewport, H \in 1..MaxViewport :
           cam = OrbitCamera(W, H, DefaultRadius, DefaultFovy)
    /\ render_buffer = [p \in 1..NumPixels |-> <<0, 0, 0>>]
    /\ need_update = TRUE
    /\ light_dir = <<0, 0>>
    /\ ambient_ratio = HalfOne
    /\ mode = "lambertian"
    /\ mesh = None
    /\ training = FALSE
    /\ step = 0
    /\ train_steps = InitTrainSteps
    /\ pc = "while"
    /\ local = LocalIdle
    /\ hist = HistInit
    /\ last = Op("__init__", 0, 0, 0)
    /\ raised = "none"
    /\ ms_per_unit = 0
    /\ n_events = 0

\* self.cam.intrinsics is read: last.a = cx, last.b = cy (half pixels),
\* last.c = focal
read_intrinsics ==
    /\ last' = LET k == intrinsics(cam) IN Op("intrinsics", k.cx, k.cy, k.focal)
    /\ raised' = "none"
    /\ UNCHANGED <<gui_fields, pc, local, hist, ms_per_unit, n_events>>

NextIntrinsics == read_intrinsics

SpecIntrinsics == InitIntrinsics /\ [][NextIntrinsics]_vars

\* C13 as stated: intrinsics returns focal = H / (2 tan(fovy/2)) and cx = W/2,
\* cy = H/2 exactly (in half pixels: W and H), for odd W and H too.
C13_IntrinsicsCentre ==
    last.op = "intrinsics" =>
        (last.a = cam.W /\ last.b = cam.H /\ last.c = cam.H)


-----------------------------------------------------------------------------
(* Properties of the render loop's iterations.                             *)

\* the step of the render loop that runs train_step
TrainStepRuns == pc = "while" /\ training /\ pc' \in {"test", "done"}

\* the step of the render loop that presents the frame
FramePresented == pc = "frame" /\ pc' = "while"

\* C14: in every iteration of GUI.render the loop goes from the training
\* step to test_step to the frame and to nothing else; with training enabled
\* train_step has run to its end, need_update set, when test_step starts;
\* step and train_steps change in the training step alone, render_buffer in
\* test_step alone, and presenting the frame changes no field; and a
\* test_step that follows a train_step with a mesh present renders afresh.
C14_FrameOrdering ==
    [][/\ pc' # pc => <<pc, pc'>> \in {<<"while", "test">>, <<"test", "frame">>,
                                       <<"frame", "while">>, <<"while", "done">>}
       /\ (pc = "while" /\ pc' = "test" /\ training) =>
              /\ last'.op = "train_step"
              /\ need_update'
              /\ hist'.trained
       /\ (step' # step \/ train_steps' # train_steps) => TrainStepRuns
       /\ render_buffer' # render_buffer => TestStepRuns
       /\ FramePresented => UNCHANGED gui_fields
       /\ (pc = "test" /\ hist.trained) => need_update
       /\ (TestStepRuns /\ hist.trained /\ mesh # None) =>
              /\ last'.op = "test_step"
              /\ last'.rast # None
              /\ render_buffer' = Shade(mode, last'.rast, ambient_ratio, light_dir)
              /\ hist'.rendered]_vars

\* C14 witness: a frame is about to be presented in an iteration that
\* trained and then rendered a covered pixel
C14_Witness ==
    /\ pc = "frame"
    /\ hist.trained
    /\ hist.rendered
    /\ last.op = "test_step"
    /\ \E p \in 1..NumPixels : last.rast[p] = NearSample

\* an iteration is about to present its frame, it began with need_update set
\* and a mesh present, and no input event was delivered during it
QuietDirtyIteration == pc = "frame" /\ hist.dirty0 /\ n_events = hist.ev0

\* C15: when such an iteration presents its frame, need_update is false and
\* render_buffer is what its test_step rendered from the camera, mesh, mode,
\* light direction and ambient ratio that hold at that moment.
C15_StaleIsRecomputed ==
    QuietDirtyIteration =>
        /\ ~need_update
        /\ hist.rendered
        /\ hist.src = RenderInputs
        /\ last.op = "test_step"
        /\ last.rast # None
        /\ render_buffer = Shade(mode, last.rast, ambient_ratio, light_dir)

\* C15 witness: such an iteration, after events that changed the mode and
\* the camera
C15_Witness ==
    /\ QuietDirtyIteration
    /\ ~need_update
    /\ mode # "lambertian"
    /\ cam # LocalIdle.src.cam

-----------------------------------------------------------------------------
(* The loop and the callback thread, interleaved within test_step.  The    *)
(* toolkit runs the callbacks on a thread of its own and gui.py takes no   *)
(* lock: a callback can run between any two statements of test_step, which *)
(* here is four steps: the guards (lines 212-215), the shading from the    *)
(* fields as read (221-254), the assignment of render_buffer (260), the    *)
(* clearing of need_update (261).                                          *)

\* lines 212-215: need_update unset, or no mesh: test_step returns
test_enter ==
    /\ pc = "test"
    /\ IF need_update /\ mesh # None
       THEN /\ pc' = "shade"
            /\ UNCHANGED <<last, raised>>
       ELSE /\ pc' = "frame"
            /\ last' = [Op("test_step", 0, 0, 0) EXCEPT !.flag = need_update]
            /\ raised' = "none"
    /\ UNCHANGED <<gui_fields, local, hist, ms_per_unit, n_events>>

\* lines 221-254: the local buffer, shaded from the fields read now
test_shade(samples) ==
    /\ pc = "shade"
    /\ \E rast \in [1..NumPixels -> samples] :
           local' = [buffer |-> Shade(mode, rast, ambient_ratio, light_dir),
                     rast |-> rast,
                     src |-> RenderInputs]
    /\ pc' = "store"
    /\ UNCHANGED <<gui_fields, hist, last, raised, ms_per_unit, n_events>>

\* line 260: self.render_buffer = buffer
test_store ==
    /\ pc = "store"
    /\ render_buffer' = local.buffer
    /\ hist' = [hist EXCEPT !.rendered = TRUE, !.fresh = TRUE,
                            !.src = local.src]
    /\ pc' = "clear"
    /\ UNCHANGED <<cam, need_update, light_dir, ambient_ratio, mode, mesh,
                   training, step, train_steps, local, last, raised,
                   ms_per_unit, n_events>>

\* line 261: self.need_update = False, and test_step returns
test_clear ==
    /\ pc = "clear"
    /\ need_update' = FALSE
    /\ last' = [Op("test_step", 0, 0, 0) EXCEPT !.rast = local.rast,
                                                !.flag = TRUE]
    /\ raised' = "none"
    /\ local' = LocalIdle
    /\ pc' = "frame"
    /\ UNCHANGED <<cam, render_buffer, light_dir, ambient_ratio, mode, mesh,
                   training, step, train_steps, hist, ms_per_unit, n_events>>

NextThreads ==
    \/ render_train(LoopDurations)
    \/ render_no_train
    \/ test_enter
    \/ test_shade(LoopSamples)
    \/ test_store
    \/ test_clear
    \/ render_frame
    \/ render_exit
    \/ \E m \in Meshes : Deliver(callback_get_mesh(m))
    \/ Deliver(callback_save_mesh)
    \/ Deliver(callback_train)
    \/ \E m \in Modes : Deliver(callback_change_mode(m))
    \/ \E f \in FovySlider : Deliver(callback_set_fovy(f))
    \/ \E v \in LightSlider, i \in {0, 1} : Deliver(callback_set_light_dir(v, i))
    \/ \E a \in AmbientSlider : Deliver(callback_set_abm_ratio(a))
    \/ \E e \in RotateInputs : Deliver(callback_camera_drag_rotate(e[1], e[2], e[3]))
    \/ \E e \in WheelInputs : Deliver(callback_camera_wheel_scale(e[1], e[2]))
    \/ \E e \in PanInputs : Deliver(callback_camera_drag_pan(e[1], e[2], e[3]))

SpecThreads == Init /\ [][NextThreads]_vars

\* C16 as stated: with callbacks running between the steps of test_step,
\* whenever render_buffer was rendered from a camera, mesh, mode, light
\* direction or ambient ratio other than the current one, need_update is
\* true.
C16_NoLostUpdate ==
    (hist.fresh /\ hist.src # RenderInputs) => need_update

-----------------------------------------------------------------------------
(* Properties of the step counter.                                         *)

\* C17: a train_step runs the trainer for the train_steps it finds on entry
\* (last.b) and adds that value, not the adjusted one, to step; step never
\* decreases, changes in a train_step alone, and always equals the units the
\* trainer has run in all.
C17_StepCountsUnitsRun ==
    [][/\ step' >= step
       /\ step' # step => /\ last'.op = "train_step"
                          /\ last'.b = train_steps
                          /\ step' = step + train_steps
       /\ step' = hist'.ran]_vars

\* C17 witness: a train_step has just adjusted the unit size, and step counts
\* units of two different sizes
C17_Witness ==
    /\ Measured
    /\ train_steps # last.b
    /\ step > last.b
    /\ step = hist.ran
    /\ step % InitTrainSteps # 0

=============================================================================
